---- MODULE Spec2Model ----
(***************************************************************************)
(* Model of the relation dependency resolver (etl/relation.py,             *)
(* order_by_dependencies) and of the build executor (etl/load.py,          *)
(* load_or_update_redshift) of arthur-redshift-etl.                        *)
(*                                                                         *)
(* A batch is the list table_descriptions.  The relation at input position *)
(* k (1-based) has the identifier k, so that "input order" is the order of *)
(* the identifiers; the dependency graph over the identifiers is arbitrary,*)
(* which covers every permutation of every batch up to renaming.           *)
(* Identifiers above nr_tables name relations that are not in the batch.   *)
(***************************************************************************)
EXTENDS Integers, Sequences, FiniteSets, TLC

\* ---------------------------------------------------------------- bounds
MaxRel == 4        \* largest batch handed to order_by_dependencies
MaxEdges == 3      \* declared dependencies (depends_on entries) per batch
MaxFiles == 3      \* relations found in the bucket for one load
MaxDesigns == 2    \* CTAS and VIEW relations handed to validate_designs_using_views
MaxColumns == 3    \* columns of a table design handed to the statement builders
MaxTexts == 2      \* statements built from one design

\* description.order of a relation that has not been ordered (Python None)
None == 0

VARIABLES res, calls, first,
          files, args, pos, conn, sent, skipped, txn, committed, vacuumable,
          val, gen

\* The descriptions and the state of a call of order_by_dependencies
rvars == <<res, calls, first>>

\* The state of a call of load_or_update_redshift
xvars == <<files, args, pos, conn, sent, skipped, txn, committed, vacuumable>>

\* The state of a call of validate_designs_using_views
vvars == <<val>>

\* The design handed to the functions that assemble SQL, and their results
gvars == <<gen>>

vars == <<res, calls, first, files, args, pos, conn, sent, skipped, txn, committed, vacuumable,
          val, gen>>

\* ------------------------------------------------------------ the batch
Identifiers(n) == 1..n

\* The identifiers a design may name in depends_on: those of the batch and
\* one identifier, nr_tables + 1, of a relation that is not in the batch
AllIdentifiers(n) == 1..(n + 1)

\* The possible depends_on entries <<relation, dependency>>, numbered
NrEdges(n) == n * (n + 1)

Edge(n, k) == << ((k - 1) \div (n + 1)) + 1, ((k - 1) % (n + 1)) + 1 >>

\* The sets of at most k of the edges numbered below top
RECURSIVE EdgeSets(_, _)
EdgeSets(top, k) ==
    IF k = 0 \/ top = 0 THEN {{}}
    ELSE EdgeSets(top - 1, k) \cup {T \cup {top} : T \in EdgeSets(top - 1, k - 1)}

EdgeNumber(n, a, b) == (a - 1) * (n + 1) + b

\* The diamond in every input order: d depends on b and c, which depend on a
Diamonds(n) ==
    IF n < 4 THEN {}
    ELSE { { EdgeNumber(n, p[1], p[2]), EdgeNumber(n, p[1], p[3]),
             EdgeNumber(n, p[2], p[4]), EdgeNumber(n, p[3], p[4]) } : p \in Permutations(1..4) }

\* The batches: every graph of at most MaxEdges dependencies, and the diamonds
Batches(n) == EdgeSets(NrEdges(n), MaxEdges) \cup Diamonds(n)

\* table_design["depends_on"] of every relation of the batch
DependsOn(n, edges) ==
    [d \in Identifiers(n) |-> {Edge(n, k)[2] : k \in {x \in edges : Edge(n, x)[1] = d}}]

\* RelationDescription.__init__ : order = None
FreshOrder(n) == [d \in Identifiers(n) |-> None]

\* ------------------------------------------- order_by_dependencies, steps
\* State of one call: the descriptions (dependencies, order), the locals of
\* the function and the position in its code.
Enter(n, depends_on, deps, order) ==
    [ nr_tables |-> n,
      depends_on |-> depends_on,
      dependencies |-> deps,
      order |-> order,
      known_tables |-> Identifiers(n),
      has_unknown_dependencies |-> {},
      known_unknowns |-> {},
      queue |-> {},
      initial_order |-> 0,
      latest |-> 0,
      minimum |-> 0,
      tie_breaker |-> 0,
      result |-> << >>,
      pc |-> IF n = 0 THEN "loop" ELSE "seed" ]

\* Slip: the operands of difference() swapped
Narrowed_Swapped(deps, unknown) == unknown \ deps

\* description.dependencies.difference(unknown)
Narrowed(deps, unknown) == deps \ unknown

\* queue.put((1, initial_order, description))
InitialEntry(initial_order, description) == <<1, initial_order, description>>

\* One iteration of "for initial_order, description in enumerate(...)"
SeedStep(r) ==
    LET description == r.initial_order + 1
        unknown == r.dependencies[description] \ r.known_tables
    IN  [r EXCEPT
           !.known_unknowns = IF unknown # {} THEN @ \cup unknown ELSE @,
           !.has_unknown_dependencies = IF unknown # {} THEN @ \cup {description} ELSE @,
           !.dependencies[description] = IF unknown # {} THEN Narrowed(@, unknown) ELSE @,
           !.queue = @ \cup { InitialEntry(r.initial_order, description) },
           !.initial_order = @ + 1,
           !.pc = IF r.initial_order + 1 = r.nr_tables THEN "loop" ELSE "seed" ]

\* Slip: equal priorities resolved by the later input position
TupleLess_LastFirst(a, b) == a[1] < b[1] \/ (a[1] = b[1] /\ a[2] > b[2])

\* Tuples compare by priority first, then by tie breaker
TupleLess(a, b) == a[1] < b[1] \/ (a[1] = b[1] /\ a[2] < b[2])

\* PriorityQueue.get : the smallest entry
QueueGet(queue) == CHOOSE e \in queue : \A o \in queue : o = e \/ TupleLess(e, o)

Max(S) == CHOOSE m \in S : \A o \in S : o <= m

\* Slip: a relation is not counted among its own dependencies
Others_NotItself(r, description) ==
    {r.order[dep] : dep \in r.dependencies[description] \ {description}}

\* others = [table_map[dep].order for dep in description.dependencies]
Others(r, description) == {r.order[dep] : dep \in r.dependencies[description]}

\* Slip: any() where all() is meant
AllOthers_Any(others) == \E o \in others : o # None

\* all(others): every dependency has its order; any(others): at least one
AllOthers(others) == \A o \in others : o # None

AnyOthers(others) == \E o \in others : o # None

\* Slip: the factor on the wrong side of the comparison
SuspectCycle_Early(minimum, nr_tables) == 2 * minimum > nr_tables

\* minimum > 2 * nr_tables
SuspectCycle(minimum, nr_tables) == minimum > 2 * nr_tables

\* Slip: the order of a relation without dependencies does not move on
OrderNoDependencies_Same(latest) == IF latest = 0 THEN 1 ELSE latest

\* latest = description.order = latest + 1
OrderNoDependencies(latest) == latest + 1

\* Slip: latest left out of the maximum
OrderAfterOthers_NoLatest(others, latest) == Max(others) + 1

\* latest = description.order = max(max(others), latest) + 1
OrderAfterOthers(others, latest) == Max(others \cup {latest}) + 1

\* queue.put((max(at_least, latest, minimum) + 1, ...))
PrioritySome(others, latest, minimum) ==
    Max((others \ {None}) \cup {latest, minimum}) + 1

\* Slip: the priority of a requeued entry is not increased
PriorityNone_Same(latest, minimum) == Max({latest, minimum})

\* queue.put((max(latest, minimum) + 1, ...))
PriorityNone(latest, minimum) == Max({latest, minimum}) + 1

\* The branch that one iteration of the while loop takes
Branch(r) ==
    LET e == QueueGet(r.queue)
        others == Others(r, e[3])
    IN  IF SuspectCycle(e[1], r.nr_tables) THEN "raise"
        ELSE IF others = {} THEN "no_dependencies"
        ELSE IF AllOthers(others) THEN "all"
        ELSE IF AnyOthers(others) THEN "some"
        ELSE "none"

\* One iteration of "while not queue.empty()"
PopStep(r) ==
    LET e == QueueGet(r.queue)
        minimum == e[1]
        tie_breaker == e[2]
        description == e[3]
        others == Others(r, description)
        popped == [r EXCEPT !.queue = @ \ {e}, !.minimum = minimum, !.tie_breaker = tie_breaker]
        branch == Branch(r)
    IN  CASE branch = "raise" -> [popped EXCEPT !.pc = "raised"]
          [] branch = "no_dependencies" ->
               [popped EXCEPT !.order[description] = OrderNoDependencies(r.latest),
                              !.latest = OrderNoDependencies(r.latest)]
          [] branch = "all" ->
               [popped EXCEPT !.order[description] = OrderAfterOthers(others, r.latest),
                              !.latest = OrderAfterOthers(others, r.latest)]
          [] branch = "some" ->
               [popped EXCEPT !.queue = @ \cup
                   { <<PrioritySome(others, r.latest, minimum), tie_breaker, description>> }]
          [] branch = "none" ->
               [popped EXCEPT !.queue = @ \cup
                   { <<PriorityNone(r.latest, minimum), tie_breaker, description>> }]

\* Slip: sorted with reverse=True
SortedByOrder_Reversed(n, order) ==
    LET Before(a, b) == order[a] > order[b] \/ (order[a] = order[b] /\ a < b)
    IN  [k \in 1..n |-> CHOOSE d \in 1..n : Cardinality({a \in 1..n : Before(a, d)}) = k - 1]

\* sorted(table_descriptions, key=attrgetter("order")): stable
SortedByOrder(n, order) ==
    LET Before(a, b) == order[a] < order[b] \/ (order[a] = order[b] /\ a < b)
    IN  [k \in 1..n |-> CHOOSE d \in 1..n : Cardinality({a \in 1..n : Before(a, d)}) = k - 1]

\* The queue is empty: sort and return
ReturnStep(r) == [r EXCEPT !.result = SortedByOrder(r.nr_tables, r.order), !.pc = "done"]

Step(r) ==
    IF r.pc = "seed" THEN SeedStep(r)
    ELSE IF r.queue # {} THEN PopStep(r)
    ELSE ReturnStep(r)

\* A whole call, from entry to return or raise
RECURSIVE Run(_)
Run(r) == IF r.pc \in {"done", "raised"} THEN r ELSE Run(Step(r))

\* No statement is being assembled
NoAssembly == [table_design |-> << >>, given |-> << >>, texts |-> << >>]

\* No validation is running
NoValidation ==
    [descriptions |-> << >>, keep_going |-> FALSE, i |-> 0, step |-> "idle",
     conn |-> "none", views |-> {}, ddl |-> {}, log |-> << >>, exc |-> "None",
     dependencies |-> {}, actual_columns |-> << >>]

\* No load is running
NoLoad ==
    /\ files = << >>
    /\ args = [add_explain_plan |-> FALSE, drop |-> FALSE, dry_run |-> TRUE]
    /\ pos = [i |-> 0, step |-> "idle", error |-> "None"]
    /\ conn = "none"
    /\ sent = << >>
    /\ skipped = << >>
    /\ txn = << >>
    /\ committed = << >>
    /\ vacuumable = << >>

\* ------------------------------------------------------- resolver actions
InitResolve ==
    /\ \E n \in 0..MaxRel :
         \E edges \in Batches(n) :
            res = Enter(n, DependsOn(n, edges), DependsOn(n, edges), FreshOrder(n))
    /\ calls = 1
    /\ first = [order |-> << >>, result |-> << >>]
    /\ NoLoad
    /\ val = NoValidation
    /\ gen = NoAssembly

Seed ==
    /\ res.pc = "seed"
    /\ res' = SeedStep(res)
    /\ UNCHANGED <<calls, first>>
    /\ UNCHANGED xvars
    /\ UNCHANGED vvars
    /\ UNCHANGED gvars

Pop(branch) ==
    /\ res.pc = "loop"
    /\ res.queue # {}
    /\ Branch(res) = branch
    /\ res' = PopStep(res)
    /\ UNCHANGED <<calls, first>>
    /\ UNCHANGED xvars
    /\ UNCHANGED vvars
    /\ UNCHANGED gvars

RaiseCyclicDependencyError == Pop("raise")

AssignNoDependencies == Pop("no_dependencies")

AssignAfterOthers == Pop("all")

RequeueSome == Pop("some")

RequeueNone == Pop("none")

Return ==
    /\ res.pc = "loop"
    /\ res.queue = {}
    /\ res' = ReturnStep(res)
    /\ UNCHANGED <<calls, first>>
    /\ UNCHANGED xvars
    /\ UNCHANGED vvars
    /\ UNCHANGED gvars

Next ==
    \/ Seed
    \/ RaiseCyclicDependencyError
    \/ AssignNoDependencies
    \/ AssignAfterOthers
    \/ RequeueSome
    \/ RequeueNone
    \/ Return

Spec == InitResolve /\ [][Next]_vars

\* A caller resolves the same descriptions a second time: order and the
\* narrowed dependencies are attributes of the descriptions and are kept.
CallAgain ==
    /\ res.pc = "done"
    /\ calls = 1
    /\ first' = [order |-> res.order, result |-> res.result]
    /\ calls' = 2
    /\ res' = Enter(res.nr_tables, res.depends_on, res.dependencies, res.order)
    /\ UNCHANGED xvars
    /\ UNCHANGED vvars
    /\ UNCHANGED gvars

NextTwice == Next \/ CallAgain

SpecTwice == InitResolve /\ [][NextTwice]_vars

\* ----------------------------------------------- properties of the resolver
\* The dependencies of the batch that are part of the batch
KnownDependencies(r) == [d \in Identifiers(r.nr_tables) |-> r.depends_on[d] \cap r.known_tables]

RECURSIVE ReachableFrom(_, _, _)
ReachableFrom(deps, seen, frontier) ==
    IF frontier = {} THEN seen
    ELSE LET next == UNION {deps[d] : d \in frontier}
         IN  ReachableFrom(deps, seen \cup next, next \ seen)

\* Some relation depends on itself through one or more known dependencies
Cyclic(r) ==
    LET deps == KnownDependencies(r)
    IN  \E d \in Identifiers(r.nr_tables) : d \in ReachableFrom(deps, {}, {d})

Position(list, d) == CHOOSE k \in DOMAIN list : list[k] = d

\* C1 (order validity): when order_by_dependencies has returned, every
\* relation has a larger order than each of its (narrowed) dependencies and
\* comes after it in the returned list.
C1_OrderValidity ==
    res.pc = "done" =>
        \A a \in Identifiers(res.nr_tables) : \A b \in res.dependencies[a] :
            /\ res.order[a] > res.order[b]
            /\ Position(res.result, a) > Position(res.result, b)

\* The diamond, listed with the dependent relations first: 1 depends on 2
\* and 3, which both depend on 4.
C1_Witness ==
    /\ res.pc = "done"
    /\ res.nr_tables = 4
    /\ res.dependencies = (1 :> {2, 3} @@ 2 :> {4} @@ 3 :> {4} @@ 4 :> {})

\* C2 (cycle detection): in a batch whose known dependencies contain a cycle
\* the loop never runs out of entries and the call never returns, so that it
\* can only end in CyclicDependencyError; a call that raised returned no list.
C2_CycleDetection ==
    /\ (res.pc = "done" \/ (res.pc = "loop" /\ res.queue = {})) => ~Cyclic(res)
    /\ res.pc = "raised" => res.result = << >>

\* A cycle of length two next to an acyclic relation that did get its order
C2_Witness ==
    /\ res.pc = "raised"
    /\ res.nr_tables >= 3
    /\ \E a, b, c \in Identifiers(res.nr_tables) :
         /\ a # b
         /\ b \in res.dependencies[a]
         /\ a \in res.dependencies[b]
         /\ res.dependencies[c] = {}
         /\ res.order[c] # None

\* C3 (no false cycle): for an acyclic batch no popped priority exceeds
\* 2 * nr_tables, the error is never raised and every relation is ordered.
C3_NoFalseCycle ==
    ( \/ res.pc = "raised"
      \/ res.minimum > 2 * res.nr_tables
      \/ (res.pc = "done" /\ \E d \in Identifiers(res.nr_tables) : res.order[d] = None)
    ) => Cyclic(res)

\* A chain listed in reverse: the first relation is requeued up to priority 4
C3_Witness ==
    /\ res.pc = "done"
    /\ res.minimum >= 4
    /\ ~Cyclic(res)

\* C4 (stability): a second call on the same descriptions, in the same input
\* order, assigns the same orders and returns the same list.
C4_Stability ==
    (calls = 2 /\ res.pc = "done") =>
        /\ res.order = first.order
        /\ res.result = first.result

\* C5 (unknown dependencies): the outcome is that of a fresh batch from which
\* the unknown identifiers were deleted beforehand; no error comes from them.
C5_UnknownTolerance ==
    res.pc \in {"done", "raised"} =>
        LET n == res.nr_tables
            twin == Run(Enter(n, KnownDependencies(res), KnownDependencies(res), FreshOrder(n)))
        IN  /\ twin.pc = res.pc
            /\ twin.order = res.order
            /\ twin.result = res.result
            /\ res.dependencies = KnownDependencies(res)

\* A relation with a known and an unknown dependency has been ordered
C5_Witness ==
    /\ res.pc = "done"
    /\ res.known_unknowns # {}
    /\ \E d \in res.has_unknown_dependencies :
         /\ res.dependencies[d] # {}
         /\ res.order[d] > 1

\* Relations whose (narrowed) dependency set is empty / is not empty
NoDependencies(r) == {d \in Identifiers(r.nr_tables) : KnownDependencies(r)[d] = {}}

WithDependencies(r) == Identifiers(r.nr_tables) \ NoDependencies(r)

\* C6 (ties by input order): entries are popped in increasing order of
\* (priority, input position), and relations without known dependencies get
\* their orders in input order.
C6_TiesByInputOrder ==
    [][ /\ (res.pc = "loop" /\ res'.pc \in {"loop", "raised"}) =>
              \/ res'.minimum > res.minimum
              \/ (res'.minimum = res.minimum /\ res'.tie_breaker > res.tie_breaker)
        /\ \A x, y \in NoDependencies(res') :
              (x < y /\ res'.order[y] # None) =>
                  (res'.order[x] # None /\ res'.order[x] < res'.order[y])
      ]_vars

\* Two relations without dependencies around a dependent one, all ordered
C6_Witness ==
    /\ res.pc = "done"
    /\ res.nr_tables >= 3
    /\ res.dependencies[1] = {}
    /\ res.dependencies[2] = {3}
    /\ res.dependencies[3] = {}
    /\ res.order[1] < res.order[3]

\* C7 as stated: every relation without dependencies has a smaller order
\* than every relation with a known dependency.
C7_NoDependenciesFirst ==
    res.pc = "done" =>
        \A x \in NoDependencies(res) : \A y \in WithDependencies(res) :
            res.order[x] < res.order[y]

\* Relations that are ordered when first popped: all their dependencies come
\* earlier in the input and were themselves ordered when first popped.
RECURSIVE FirstPass(_, _)
FirstPass(r, d) ==
    \A dep \in KnownDependencies(r)[d] : dep < d /\ FirstPass(r, dep)

\* C7 (amended): a relation without dependencies has a smaller order than a
\* relation with a known dependency exactly when that relation follows it
\* in the input or could not be ordered when first popped.
C7_NoDependenciesFirstPass ==
    res.pc = "done" =>
        \A x \in NoDependencies(res) : \A y \in WithDependencies(res) :
            (res.order[x] < res.order[y]) <=> (y > x \/ ~FirstPass(res, y))

\* A dependent relation ordered before a later relation without dependencies,
\* and a requeued one ordered after it
C7_Witness ==
    /\ res.pc = "done"
    /\ res.nr_tables = 4
    /\ res.depends_on = (1 :> {4} @@ 2 :> {} @@ 3 :> {2} @@ 4 :> {})
    /\ res.order[3] < res.order[4]
    /\ res.order[4] < res.order[1]

\* ------------------------------------------------ load_or_update_redshift
\* What load_or_update_redshift reads for one relation: source_name of the
\* design (CTAS, VIEW, or the name of an upstream source), whether a column
\* has identity set, and whether a manifest file was found.
Relations ==
    { [kind |-> "UPSTREAM", identity |-> FALSE, manifest |-> TRUE],
      [kind |-> "UPSTREAM", identity |-> FALSE, manifest |-> FALSE],
      [kind |-> "VIEW", identity |-> FALSE, manifest |-> FALSE],
      [kind |-> "CTAS", identity |-> FALSE, manifest |-> FALSE],
      [kind |-> "CTAS", identity |-> TRUE, manifest |-> FALSE] }

Arguments == [add_explain_plan : BOOLEAN, drop : BOOLEAN, dry_run : BOOLEAN]

\* Slip: "VIEW" is missing from the tuple, a view is built like a table
Creates_OnlyCTAS(relation) == IF relation.kind = "CTAS" THEN "CTAS" ELSE "None"

\* creates = source_name if source_name in ("CTAS", "VIEW") else None
Creates(relation) == IF relation.kind \in {"CTAS", "VIEW"} THEN relation.kind ELSE "None"

\* Statements that change the warehouse; EXPLAIN and SELECT only read
StateChanging ==
    { "DROP TABLE", "CREATE TABLE", "ALTER TABLE OWNER", "DROP VIEW", "CREATE VIEW",
      "CREATE TEMP TABLE", "INSERT INTO TEMP", "DELETE", "INSERT", "DROP TEMP TABLE",
      "COPY", "GRANT ALL", "GRANT SELECT", "ANALYZE", "VACUUM" }

\* Slip: the drop is issued before dry_run is looked at
CreateTableStatements_DropFirst(drop_table, dry_run) ==
    (IF drop_table THEN << "DROP TABLE" >> ELSE << >>)
        \o (IF dry_run THEN << >> ELSE << "CREATE TABLE", "ALTER TABLE OWNER" >>)

\* create_table: the statements it executes
CreateTableStatements(drop_table, dry_run) ==
    IF dry_run THEN << >>
    ELSE (IF drop_table THEN << "DROP TABLE" >> ELSE << >>)
             \o << "CREATE TABLE", "ALTER TABLE OWNER" >>

\* Slip: CREATE OR REPLACE VIEW alone, the drop left out
CreateViewStatements_NoDrop(drop_view, dry_run) ==
    IF dry_run THEN << >> ELSE << "CREATE VIEW" >>

\* create_view: the statements it executes
CreateViewStatements(drop_view, dry_run) ==
    IF dry_run THEN << >>
    ELSE (IF drop_view THEN << "DROP VIEW" >> ELSE << >>) \o << "CREATE VIEW" >>

\* copy_data: the statements of the try block
CopyDataStatements(dry_run) ==
    IF dry_run THEN << >> ELSE << "DELETE", "COPY" >>

\* Slip: the target is emptied before the staging table is created
CreateTempTableAsAndCopyStatements_DeleteFirst(has_any_identity, add_explain_plan, dry_run) ==
    (IF add_explain_plan THEN << "EXPLAIN" >> ELSE << >>)
        \o (IF dry_run THEN << >>
            ELSE << "DELETE", "CREATE TEMP TABLE" >>
                     \o (IF has_any_identity THEN << "INSERT INTO TEMP" >> ELSE << >>)
                     \o << "INSERT", "DROP TEMP TABLE" >>)

\* create_temp_table_as_and_copy: the EXPLAIN query comes before the
\* dry_run test; dml_temp_stmt exists when a column has identity set
CreateTempTableAsAndCopyStatements(has_any_identity, add_explain_plan, dry_run) ==
    (IF add_explain_plan THEN << "EXPLAIN" >> ELSE << >>)
        \o (IF dry_run THEN << >>
            ELSE << "CREATE TEMP TABLE" >>
                     \o (IF has_any_identity THEN << "INSERT INTO TEMP" >> ELSE << >>)
                     \o << "DELETE", "INSERT", "DROP TEMP TABLE" >>)

\* grant_access, analyze, vacuum
GrantAccessStatements(dry_run) == IF dry_run THEN << >> ELSE << "GRANT ALL", "GRANT SELECT" >>

\* Slip: the table is vacuumed right after it was analyzed
AnalyzeStatements_ThenVacuum(dry_run) ==
    IF dry_run THEN << >> ELSE << "ANALYZE", "VACUUM" >>

AnalyzeStatements(dry_run) == IF dry_run THEN << >> ELSE << "ANALYZE" >>

\* Slip: the dry_run test is inverted
VacuumStatements_WhenDryRun(dry_run) == IF dry_run THEN << "VACUUM" >> ELSE << >>

VacuumStatements(dry_run) == IF dry_run THEN << >> ELSE << "VACUUM" >>

\* Slip: create_view does not log the step it skips
SkippedStep_ViewSilent(step, creates, dry_run) ==
    IF dry_run /\ ~(step = "CREATE" /\ creates = "VIEW") THEN << step >> ELSE << >>

\* The "Dry-run: Skipping ..." message that each function logs
SkippedStep(step, creates, dry_run) == IF dry_run THEN << step >> ELSE << >>

\* etl.pg.execute of the first upto statements, of which the first good succeed
Executed(stmts, i, upto, good, on) ==
    [j \in 1..upto |-> [stmt |-> stmts[j], rel |-> i, ok |-> j <= good, on |-> on]]

\* The statements that succeeded are part of the open transaction
InTransaction(stmts, i, good) == [j \in 1..good |-> [stmt |-> stmts[j], rel |-> i]]

Skipped(steps, i) == [j \in 1..Len(steps) |-> [step |-> steps[j], rel |-> i]]

\* The statement that fails, if any: 0 when all succeed
Failures(stmts) == 0..Len(stmts)

\* The exception error leaves "with conn" (rollback) and "closing" (close)
RaisedError(error) ==
    /\ txn' = << >>
    /\ conn' = "closed"
    /\ pos' = [pos EXCEPT !.step = "raised", !.error = error]

\* ... the exception of the call that failed
Raised == RaisedError("Exception")

\* A function that executes stmts on the main connection inside "with conn"
Call(stmts, steps, next) ==
    \E k \in Failures(stmts) :
        /\ skipped' = skipped \o Skipped(steps, pos.i)
        /\ IF k = 0
           THEN /\ sent' = sent \o Executed(stmts, pos.i, Len(stmts), Len(stmts), "main")
                /\ txn' = txn \o InTransaction(stmts, pos.i, Len(stmts))
                /\ pos' = [pos EXCEPT !.step = next]
                /\ UNCHANGED conn
           ELSE /\ sent' = sent \o Executed(stmts, pos.i, k, k - 1, "main")
                /\ Raised

InitLoad ==
    /\ \E n \in 0..MaxFiles : files \in [1..n -> Relations]
    /\ args \in Arguments
    /\ pos = [i |-> 0, step |-> "start", error |-> "None"]
    /\ conn = "none"
    /\ sent = << >>
    /\ skipped = << >>
    /\ txn = << >>
    /\ committed = << >>
    /\ vacuumable = << >>
    /\ val = NoValidation
    /\ gen = NoAssembly
    /\ res = Run(Enter(Len(files), DependsOn(Len(files), {}), DependsOn(Len(files), {}),
                       FreshOrder(Len(files))))
    /\ calls = 1
    /\ first = [order |-> << >>, result |-> << >>]

\* No files found: return; otherwise open the connection, which may fail
Start ==
    /\ pos.step = "start"
    /\ \/ /\ Len(files) = 0
          /\ pos' = [pos EXCEPT !.step = "returned"]
          /\ UNCHANGED conn
       \/ /\ Len(files) > 0
          /\ conn' = "main"
          /\ pos' = [i |-> 1, step |-> "read", error |-> "None"]
       \/ /\ Len(files) > 0
          /\ pos' = [pos EXCEPT !.step = "raised"]
          /\ UNCHANGED conn
    /\ UNCHANGED <<files, args, sent, skipped, txn, committed, vacuumable>>
    /\ UNCHANGED rvars
    /\ UNCHANGED vvars
    /\ UNCHANGED gvars

\* Read the design, and the query of a CTAS or VIEW, from the bucket
ReadFiles ==
    /\ pos.step = "read"
    /\ \/ /\ pos' = [pos EXCEPT !.step = "create"]
          /\ UNCHANGED <<conn, txn>>
       \/ Raised
    /\ UNCHANGED <<files, args, sent, skipped, committed, vacuumable>>
    /\ UNCHANGED rvars
    /\ UNCHANGED vvars
    /\ UNCHANGED gvars

CreateView ==
    /\ pos.step = "create"
    /\ Creates(files[pos.i]) = "VIEW"
    /\ Call(CreateViewStatements(args.drop, args.dry_run),
            SkippedStep("CREATE", "VIEW", args.dry_run), "grant")
    /\ UNCHANGED <<files, args, committed, vacuumable>>
    /\ UNCHANGED rvars
    /\ UNCHANGED vvars
    /\ UNCHANGED gvars

CreateTable ==
    /\ pos.step = "create"
    /\ Creates(files[pos.i]) # "VIEW"
    /\ Call(CreateTableStatements(args.drop, args.dry_run),
            SkippedStep("CREATE", Creates(files[pos.i]), args.dry_run), "populate")
    /\ UNCHANGED <<files, args, committed, vacuumable>>
    /\ UNCHANGED rvars
    /\ UNCHANGED vvars
    /\ UNCHANGED gvars

CreateTempTableAsAndCopy ==
    /\ pos.step = "populate"
    /\ Creates(files[pos.i]) = "CTAS"
    /\ \E k \in Failures(CreateTempTableAsAndCopyStatements(
                             files[pos.i].identity, args.add_explain_plan, args.dry_run)) :
         LET stmts == CreateTempTableAsAndCopyStatements(
                          files[pos.i].identity, args.add_explain_plan, args.dry_run)
             explained == IF args.add_explain_plan THEN 1 ELSE 0
         IN  IF k = 0
             THEN /\ sent' = sent \o Executed(stmts, pos.i, Len(stmts), Len(stmts), "main")
                  /\ txn' = txn \o InTransaction(stmts, pos.i, Len(stmts))
                  /\ skipped' = skipped \o Skipped(SkippedStep("POPULATE", "CTAS", args.dry_run), pos.i)
                  /\ pos' = [pos EXCEPT !.step = "analyze"]
                  /\ UNCHANGED conn
             ELSE /\ sent' = sent \o Executed(stmts, pos.i, k, k - 1, "main")
                  /\ skipped' = IF k > explained
                                THEN skipped \o Skipped(SkippedStep("POPULATE", "CTAS", args.dry_run), pos.i)
                                ELSE skipped
                  /\ Raised
    /\ UNCHANGED <<files, args, committed, vacuumable>>
    /\ UNCHANGED rvars
    /\ UNCHANGED vvars
    /\ UNCHANGED gvars

\* What "except psycopg2.Error as exc" of copy_data may find after the
\* rollback: pgerror is None (an error that the server did not report),
\* pgerror does not name stl_load_errors, or it does and the query of
\* stl_load_errors succeeds or fails
LoadErrorCases == {"pgerror is None", "not named", "queried", "query fails"}

\* The statement of the except block
LoadErrorQuery(case, i) ==
    IF case \in {"queried", "query fails"}
    THEN << [stmt |-> "SELECT stl_load_errors", rel |-> i, ok |-> case = "queried", on |-> "main"] >>
    ELSE << >>

\* The exception that leaves copy_data: "raise" re-raises the error of the
\* statement unless the except block failed before
LoadError(case, stmt) ==
    CASE case = "pgerror is None" -> "TypeError"
      [] case = "query fails" -> "psycopg2.Error of SELECT stl_load_errors"
      [] OTHER -> "psycopg2.Error of " \o stmt

\* copy_data: ValueError without a manifest; DELETE, COPY and commit; on an
\* error rollback, possibly a look at stl_load_errors, and the error again
CopyData ==
    /\ pos.step = "populate"
    /\ Creates(files[pos.i]) = "None"
    /\ IF ~files[pos.i].manifest
       THEN /\ RaisedError("ValueError")
            /\ UNCHANGED <<sent, skipped, committed>>
       ELSE \E k \in Failures(CopyDataStatements(args.dry_run)) :
              LET stmts == CopyDataStatements(args.dry_run)
              IN  /\ skipped' = skipped \o Skipped(SkippedStep("POPULATE", "None", args.dry_run), pos.i)
                  /\ IF k = 0
                     THEN /\ sent' = sent \o Executed(stmts, pos.i, Len(stmts), Len(stmts), "main")
                          /\ IF args.dry_run
                             THEN UNCHANGED <<txn, committed>>
                             ELSE /\ committed' = committed \o txn \o InTransaction(stmts, pos.i, Len(stmts))
                                  /\ txn' = << >>
                          /\ pos' = [pos EXCEPT !.step = "analyze"]
                          /\ UNCHANGED conn
                     ELSE /\ \E case \in LoadErrorCases :
                               /\ sent' = sent \o Executed(stmts, pos.i, k, k - 1, "main")
                                               \o LoadErrorQuery(case, pos.i)
                               /\ RaisedError(LoadError(case, stmts[k]))
                          /\ UNCHANGED committed
    /\ UNCHANGED <<files, args, vacuumable>>
    /\ UNCHANGED rvars
    /\ UNCHANGED vvars
    /\ UNCHANGED gvars

\* Slip: ANALYZE is committed on its own, as on an autocommit connection
Analyze_Autocommit ==
    /\ pos.step = "analyze"
    /\ \E k \in Failures(AnalyzeStatements(args.dry_run)) :
         LET stmts == AnalyzeStatements(args.dry_run)
         IN  /\ skipped' = skipped \o Skipped(SkippedStep("ANALYZE", "None", args.dry_run), pos.i)
             /\ IF k = 0
                THEN /\ sent' = sent \o Executed(stmts, pos.i, Len(stmts), Len(stmts), "main")
                     /\ committed' = committed \o InTransaction(stmts, pos.i, Len(stmts))
                     /\ vacuumable' = Append(vacuumable, pos.i)
                     /\ pos' = [pos EXCEPT !.step = "grant"]
                     /\ UNCHANGED <<conn, txn>>
                ELSE /\ sent' = sent \o Executed(stmts, pos.i, k, k - 1, "main")
                     /\ UNCHANGED <<committed, vacuumable>>
                     /\ Raised
    /\ UNCHANGED <<files, args>>
    /\ UNCHANGED rvars
    /\ UNCHANGED vvars
    /\ UNCHANGED gvars

\* analyze(...) and vacuumable.append(table_name)
Analyze ==
    /\ pos.step = "analyze"
    /\ Call(AnalyzeStatements(args.dry_run),
            SkippedStep("ANALYZE", Creates(files[pos.i]), args.dry_run), "grant")
    /\ vacuumable' = IF pos'.step = "grant" THEN Append(vacuumable, pos.i) ELSE vacuumable
    /\ UNCHANGED <<files, args, committed>>
    /\ UNCHANGED rvars
    /\ UNCHANGED vvars
    /\ UNCHANGED gvars

GrantAccess ==
    /\ pos.step = "grant"
    /\ Call(GrantAccessStatements(args.dry_run),
            SkippedStep("GRANT", Creates(files[pos.i]), args.dry_run), "exit")
    /\ UNCHANGED <<files, args, committed, vacuumable>>
    /\ UNCHANGED rvars
    /\ UNCHANGED vvars
    /\ UNCHANGED gvars

\* The end of "with conn": commit, then the next relation
ExitTransaction ==
    /\ pos.step = "exit"
    /\ committed' = committed \o txn
    /\ txn' = << >>
    /\ pos' = IF pos.i < Len(files) THEN [i |-> pos.i + 1, step |-> "read", error |-> "None"]
              ELSE [pos EXCEPT !.step = "close"]
    /\ UNCHANGED <<files, args, conn, sent, skipped, vacuumable>>
    /\ UNCHANGED rvars
    /\ UNCHANGED vvars
    /\ UNCHANGED gvars

\* Slip: the vacuum block sits inside "with closing(...)", the main
\* connection is still open when the second one is made
CloseConnection_LeftOpen ==
    /\ pos.step = "close"
    /\ pos' = IF args.drop THEN [pos EXCEPT !.step = "returned"]
              ELSE [pos EXCEPT !.step = "reconnect"]
    /\ UNCHANGED <<files, args, conn, sent, skipped, txn, committed, vacuumable>>
    /\ UNCHANGED rvars
    /\ UNCHANGED vvars
    /\ UNCHANGED gvars

\* The end of "with closing(...)"; no vacuum when drop is set
CloseConnection ==
    /\ pos.step = "close"
    /\ conn' = "closed"
    /\ pos' = IF args.drop THEN [pos EXCEPT !.step = "returned"]
              ELSE [pos EXCEPT !.step = "reconnect"]
    /\ UNCHANGED <<files, args, sent, skipped, txn, committed, vacuumable>>
    /\ UNCHANGED rvars
    /\ UNCHANGED vvars
    /\ UNCHANGED gvars

\* Reconnect to run vacuum outside transaction block
OpenVacuumConnection ==
    /\ pos.step = "reconnect"
    /\ \/ /\ conn' = "autocommit"
          /\ pos' = IF vacuumable = << >> THEN [pos EXCEPT !.step = "vacuumed"]
                    ELSE [i |-> 1, step |-> "vacuum", error |-> "None"]
       \/ /\ pos' = [pos EXCEPT !.step = "raised"]
          /\ UNCHANGED conn
    /\ UNCHANGED <<files, args, sent, skipped, txn, committed, vacuumable>>
    /\ UNCHANGED rvars
    /\ UNCHANGED vvars
    /\ UNCHANGED gvars

\* vacuum(conn, table_name) for the next entry of vacuumable
Vacuum ==
    /\ pos.step = "vacuum"
    /\ \E k \in Failures(VacuumStatements(args.dry_run)) :
         LET stmts == VacuumStatements(args.dry_run)
             table_name == vacuumable[pos.i]
         IN  /\ skipped' = skipped \o Skipped(SkippedStep("VACUUM", "None", args.dry_run), table_name)
             /\ IF k = 0
                THEN /\ sent' = sent \o Executed(stmts, table_name, Len(stmts), Len(stmts), "autocommit")
                     /\ committed' = committed \o InTransaction(stmts, table_name, Len(stmts))
                     /\ pos' = IF pos.i < Len(vacuumable) THEN [pos EXCEPT !.i = pos.i + 1]
                               ELSE [pos EXCEPT !.step = "vacuumed"]
                     /\ UNCHANGED <<conn, txn>>
                ELSE /\ sent' = sent \o Executed(stmts, table_name, k, k - 1, "autocommit")
                     /\ UNCHANGED committed
                     /\ Raised
    /\ UNCHANGED <<files, args, vacuumable>>
    /\ UNCHANGED rvars
    /\ UNCHANGED vvars
    /\ UNCHANGED gvars

CloseVacuumConnection ==
    /\ pos.step = "vacuumed"
    /\ conn' = "closed"
    /\ pos' = [pos EXCEPT !.step = "returned"]
    /\ UNCHANGED <<files, args, sent, skipped, txn, committed, vacuumable>>
    /\ UNCHANGED rvars
    /\ UNCHANGED vvars
    /\ UNCHANGED gvars

NextLoad ==
    \/ Start
    \/ ReadFiles
    \/ CreateView
    \/ CreateTable
    \/ CreateTempTableAsAndCopy
    \/ CopyData
    \/ Analyze
    \/ GrantAccess
    \/ ExitTransaction
    \/ CloseConnection
    \/ OpenVacuumConnection
    \/ Vacuum
    \/ CloseVacuumConnection

SpecLoad == InitLoad /\ [][NextLoad]_vars

\* A load of relations whose descriptions were ordered by
\* order_by_dependencies; the bucket lists them in an order of its own
InitOrderedLoad ==
    /\ \E n \in 1..MaxFiles :
         /\ files \in [1..n -> Relations]
         /\ \E edges \in EdgeSets(NrEdges(n), MaxEdges) :
              /\ res = Run(Enter(n, DependsOn(n, edges), DependsOn(n, edges), FreshOrder(n)))
              /\ res.pc = "done"
              /\ res.known_unknowns = {}
    /\ args = [add_explain_plan |-> FALSE, drop |-> FALSE, dry_run |-> FALSE]
    /\ pos = [i |-> 0, step |-> "start", error |-> "None"]
    /\ conn = "none"
    /\ sent = << >>
    /\ skipped = << >>
    /\ txn = << >>
    /\ committed = << >>
    /\ vacuumable = << >>
    /\ val = NoValidation
    /\ gen = NoAssembly
    /\ calls = 1
    /\ first = [order |-> << >>, result |-> << >>]

SpecOrderedLoad == InitOrderedLoad /\ [][NextLoad]_vars

\* ------------------------------------------------------------ the validator
\* A column of a table design
Column(name, is_skipped, is_identity) ==
    [name |-> name, skipped |-> is_skipped, identity |-> is_identity]

\* The column lists of the designs
ColumnLists ==
    { << Column("a", FALSE, FALSE), Column("b", FALSE, FALSE) >>,
      << Column("id", FALSE, TRUE), Column("a", FALSE, FALSE) >>,
      << Column("a", FALSE, FALSE), Column("s", TRUE, FALSE), Column("b", FALSE, FALSE) >>,
      << Column("s", TRUE, FALSE), Column("id", FALSE, TRUE), Column("a", FALSE, FALSE) >> }

\* The relation that a design or the catalog may name as a dependency
DependencyNames == {"raw.orders"}

\* The table designs of the CTAS and VIEW relations
Designs == [depends_on : SUBSET DependencyNames, columns : ColumnLists]

\* The rows that the catalog queries on the temporary view may return
ObservedDependencies == SUBSET DependencyNames

ObservedColumns == { << "a" >>, << "a", "b" >>, << "b", "a" >> }

\* What a check returns when the lists match (Python None, which is false)
NoMessage == << >>

\* _check_dependencies: the message with its payload, or None
CheckDependencies(observed, table_design) ==
    IF observed # table_design.depends_on
    THEN << [actual_but_unlisted |-> observed \ table_design.depends_on,
             listed_but_not_actual |-> table_design.depends_on \ observed] >>
    ELSE NoMessage

\* list.insert(index, x) of Python, index counted from 0
ListInsert(list, index, x) ==
    IF index >= Len(list) THEN Append(list, x)
    ELSE SubSeq(list, 1, index) \o << x >> \o SubSeq(list, index + 1, Len(list))

\* The loop of _check_columns over enumerate(table_design['columns']),
\* from the column at position k (counted from 1) on
RECURSIVE InsertIdentity(_, _, _)
InsertIdentity(observed, columns, k) ==
    IF k > Len(columns) THEN observed
    ELSE InsertIdentity(IF columns[k].identity
                        THEN ListInsert(observed, k - 1, columns[k].name)
                        ELSE observed,
                        columns, k + 1)

\* expected of _check_columns: the names of the columns not skipped
Expected(table_design) ==
    LET kept == SelectSeq(table_design.columns, LAMBDA column : ~column.skipped)
    IN  [k \in DOMAIN kept |-> kept[k].name]

\* _check_columns: the message with the two lists it compares, or None
CheckColumns(observed, table_design) ==
    LET with_identity == InsertIdentity(observed, table_design.columns, 1)
    IN  IF with_identity # Expected(table_design)
        THEN << [observed |-> with_identity, expected |-> Expected(table_design)] >>
        ELSE NoMessage

\* The log with one more line about the relation that is being validated
Logged(v, level, about) == Append(v.log, [rel |-> v.i, level |-> level, about |-> about])

InitValidate ==
    /\ \E n \in 1..MaxDesigns :
         \E descriptions \in [1..n -> Designs], keep_going \in BOOLEAN :
            val = [NoValidation EXCEPT !.descriptions = descriptions,
                                       !.keep_going = keep_going,
                                       !.step = "connect"]
    /\ res = Run(Enter(0, << >>, << >>, << >>))
    /\ calls = 1
    /\ first = [order |-> << >>, result |-> << >>]
    /\ NoLoad
    /\ gen = NoAssembly

\* etl.pg.connection(dsn, autocommit=True), which may fail
Connect ==
    /\ val.step = "connect"
    /\ \/ val' = [val EXCEPT !.conn = "autocommit", !.i = 1, !.step = "create"]
       \/ val' = [val EXCEPT !.step = "raised", !.exc = "psycopg2.Error"]
    /\ UNCHANGED rvars
    /\ UNCHANGED xvars
    /\ UNCHANGED gvars

\* CREATE OR REPLACE VIEW of the temporary view; an error of the statement
\* is raised to the try block of validate_designs_using_views.  The text of
\* the statement is formatted from description.query_stmt first, which
\* raises MissingQueryError when the description has no SQL file.
CreateTempView ==
    /\ val.step = "create"
    /\ \/ val' = [val EXCEPT !.views = val.views \cup {val.i},
                               !.ddl = val.ddl \cup {val.i}, !.step = "dependencies"]
       \/ val' = [val EXCEPT !.ddl = val.ddl \cup {val.i},
                               !.step = "except", !.exc = "psycopg2.Error"]
       \/ val' = [val EXCEPT !.step = "except", !.exc = "MissingQueryError"]
    /\ UNCHANGED rvars
    /\ UNCHANGED xvars
    /\ UNCHANGED gvars

\* Slip: keep_going is not looked at, every mismatch is raised
Report_AlwaysFatal(v, comparison_output, about, next) ==
    IF comparison_output # NoMessage
    THEN [v EXCEPT !.step = "except", !.exc = "TableDesignError"]
    ELSE [v EXCEPT !.log = Logged(v, "info", about), !.step = next]

\* if comparison_output: warning when keep_going, TableDesignError otherwise;
\* else: the info that the listing matches
Report(v, comparison_output, about, next) ==
    IF comparison_output # NoMessage
    THEN IF v.keep_going
         THEN [v EXCEPT !.log = Logged(v, "warning", about), !.step = next]
         ELSE [v EXCEPT !.step = "except", !.exc = "TableDesignError"]
    ELSE [v EXCEPT !.log = Logged(v, "info", about), !.step = next]

\* The dependency query and the comparison with depends_on of the design
QueryDependencies ==
    /\ val.step = "dependencies"
    /\ \/ \E dependencies \in ObservedDependencies :
            val' = Report([val EXCEPT !.dependencies = dependencies],
                          CheckDependencies(dependencies, val.descriptions[val.i]),
                          "dependencies", "columns")
       \/ val' = [val EXCEPT !.step = "except", !.exc = "psycopg2.Error"]
    /\ UNCHANGED rvars
    /\ UNCHANGED xvars
    /\ UNCHANGED gvars

\* The column query and the comparison with the columns of the design
QueryColumns ==
    /\ val.step = "columns"
    /\ \/ \E actual_columns \in ObservedColumns :
            val' = Report([val EXCEPT !.actual_columns = actual_columns],
                          CheckColumns(actual_columns, val.descriptions[val.i]),
                          "columns", "drop")
       \/ val' = [val EXCEPT !.step = "except", !.exc = "psycopg2.Error"]
    /\ UNCHANGED rvars
    /\ UNCHANGED xvars
    /\ UNCHANGED gvars

\* The next description of the loop, or the end of "with closing(...)"
NextDescription(v) ==
    IF v.i < Len(v.descriptions)
    THEN [v EXCEPT !.i = v.i + 1, !.step = "create",
                   !.dependencies = {}, !.actual_columns = << >>]
    ELSE [v EXCEPT !.step = "returned", !.conn = "closed"]

\* DROP VIEW IF EXISTS of the temporary view, the last statement of
\* validate_table_as_view
DropTempView ==
    /\ val.step = "drop"
    /\ \/ val' = NextDescription([val EXCEPT !.views = val.views \ {val.i}])
       \/ val' = [val EXCEPT !.step = "except", !.exc = "psycopg2.Error"]
    /\ UNCHANGED rvars
    /\ UNCHANGED xvars
    /\ UNCHANGED gvars

\* The errors that "except (etl.ETLException, psycopg2.Error)" catches.
\* MissingQueryError derives from etl.ETLError; the two classes are defined
\* in etl/__init__.py, which the sources do not hold at this revision, so
\* their relation follows the error handling design (section 7 of the
\* specification): a missing query is fatal, it is not caught here
Caught(exc) == exc # "MissingQueryError"

\* except (etl.ETLException, psycopg2.Error): log and go on when keep_going
IgnoreFailure ==
    /\ val.step = "except"
    /\ val.keep_going
    /\ Caught(val.exc)
    /\ val' = NextDescription([val EXCEPT !.log = Logged(val, "exception", val.exc),
                                         !.exc = "None"])
    /\ UNCHANGED rvars
    /\ UNCHANGED xvars
    /\ UNCHANGED gvars

\* ... and raise otherwise, which closes the connection
RaiseFailure ==
    /\ val.step = "except"
    /\ ~val.keep_going \/ ~Caught(val.exc)
    /\ val' = [val EXCEPT !.step = "raised", !.conn = "closed"]
    /\ UNCHANGED rvars
    /\ UNCHANGED xvars
    /\ UNCHANGED gvars

NextValidate ==
    \/ Connect
    \/ CreateTempView
    \/ QueryDependencies
    \/ QueryColumns
    \/ DropTempView
    \/ IgnoreFailure
    \/ RaiseFailure

SpecValidate == InitValidate /\ [][NextValidate]_vars

\* ------------------------------------------------------- validate_designs
\* validate_designs(dsn, file_sets, keep_going, skip_deps): the descriptions
\* that validate_design_file_semantics returned are ordered first, then the
\* CTAS and VIEW relations among them are validated against the database.

\* The table design of relation d as the validator reads it: a relation
\* that names dependencies names the upstream relation
DesignOf(r, d) ==
    [depends_on |-> IF r.depends_on[d] = {} THEN {} ELSE DependencyNames,
     columns |-> << Column("a", FALSE, FALSE), Column("b", FALSE, FALSE) >>]

\* [description for description in valid_descriptions
\*  if description.is_ctas_relation or description.is_view_relation]
TablesToValidateAsViews(r, is_ctas_or_view) ==
    LET valid_descriptions == [d \in Identifiers(r.nr_tables) |-> d]
        kept == SelectSeq(valid_descriptions, LAMBDA d : d \in is_ctas_or_view)
    IN  [k \in DOMAIN kept |-> DesignOf(r, kept[k])]

InitValidateDesigns ==
    /\ \E n \in 0..MaxDesigns :
         \E edges \in Batches(n) :
            res = Enter(n, DependsOn(n, edges), DependsOn(n, edges), FreshOrder(n))
    /\ calls = 1
    /\ first = [order |-> << >>, result |-> << >>]
    /\ NoLoad
    /\ \E keep_going \in BOOLEAN : val = [NoValidation EXCEPT !.keep_going = keep_going]
    /\ gen = NoAssembly

\* Slip: the database validation is started before the ordering has ended
ValidateAgainstDatabase_BeforeOrdering ==
    /\ val.step = "idle"
    /\ \E skip_deps \in BOOLEAN, is_ctas_or_view \in SUBSET Identifiers(res.nr_tables) :
         LET tables_to_validate_as_views == TablesToValidateAsViews(res, is_ctas_or_view)
         IN  val' = IF skip_deps \/ tables_to_validate_as_views = << >>
                    THEN [val EXCEPT !.step = "skipped"]
                    ELSE [val EXCEPT !.descriptions = tables_to_validate_as_views,
                                     !.step = "connect"]
    /\ UNCHANGED rvars
    /\ UNCHANGED xvars
    /\ UNCHANGED gvars

\* What validate_designs does once order_by_dependencies has returned: skip
\* the validation against the database (skip_deps, or nothing to do), or
\* call validate_designs_using_views
ValidateAgainstDatabase ==
    /\ res.pc = "done"
    /\ val.step = "idle"
    /\ \E skip_deps \in BOOLEAN, is_ctas_or_view \in SUBSET Identifiers(res.nr_tables) :
         LET tables_to_validate_as_views == TablesToValidateAsViews(res, is_ctas_or_view)
         IN  val' = IF skip_deps \/ tables_to_validate_as_views = << >>
                    THEN [val EXCEPT !.step = "skipped"]
                    ELSE [val EXCEPT !.descriptions = tables_to_validate_as_views,
                                     !.step = "connect"]
    /\ UNCHANGED rvars
    /\ UNCHANGED xvars
    /\ UNCHANGED gvars

NextValidateDesigns ==
    \/ Next
    \/ ValidateAgainstDatabase
    \/ NextValidate

SpecValidateDesigns == InitValidateDesigns /\ [][NextValidateDesigns]_vars

\* ------------------------------------------------- the statement builders
\* key in d, and d.get(key, default), of a Python dict
Has(d, key) == key \in DOMAIN d

Get(d, key, default) == IF key \in DOMAIN d THEN d[key] ELSE default

\* d.update(e)
Update(d, e) == [key \in DOMAIN d \cup DOMAIN e |-> IF key \in DOMAIN e THEN e[key] ELSE d[key]]

\* A dict without keys
EmptyDict == [key \in {} |-> key]

\* The columns that a design may declare: an ordinary column, an identity
\* column, a skipped column and a column with an encoding and a reference
DesignColumns ==
    { [name |-> "a", sql_type |-> "integer", type |-> "int"],
      [name |-> "id", sql_type |-> "bigint", type |-> "long", identity |-> TRUE,
       not_null |-> TRUE],
      [name |-> "s", sql_type |-> "timestamp", type |-> "timestamp", skipped |-> TRUE,
       not_null |-> TRUE],
      [name |-> "fk", sql_type |-> "integer", type |-> "int", encoding |-> "lzo",
       references |-> [foreign_table |-> "raw.users", foreign_columns |-> << "id" >>]] }

\* The lists of 1 to MaxColumns different columns
ColumnSequences ==
    UNION { {columns \in [1..n -> DesignColumns] :
                 \A j, k \in 1..n : j # k => columns[j] # columns[k]} : n \in 1..MaxColumns }

ConstraintDicts ==
    { EmptyDict,
      [primary_key |-> << "id" >>, unique |-> << "a" >>],
      [foreign_key |-> [local_columns |-> << "fk" >>, reference |-> "raw.users",
                        reference_columns |-> << "id" >>]] }

AttributeDicts ==
    { EmptyDict,
      [distribution |-> [list |-> << "a" >>], compound_sort |-> << "a" >>],
      [distribution |-> [style |-> "even"], interleaved_sort |-> << "a" >>] }

TableDesigns == [columns : ColumnSequences, constraints : ConstraintDicts,
                 attributes : AttributeDicts]

\* '"{}"'.format(column)
Quoted(column) == << "\"", column, "\"" >>

\* format_column_list: the quoted names, which the text joins with ", "
FormatColumnList(columns) == [k \in DOMAIN columns |-> Quoted(columns[k])]

\* One constraint of the listed keys that the design has, or nothing
ConstraintsOf(constraints, keys, keyword) ==
    LET present == SelectSeq(keys, LAMBDA key : Has(constraints, key))
    IN  [k \in DOMAIN present |->
            [constraint |-> keyword, columns |-> FormatColumnList(constraints[present[k]]),
             reference_table |-> "", reference_columns |-> << >>]]

\* _build_constraints
BuildConstraints(table_design, exclude_foreign_keys) ==
    LET constraints == table_design.constraints
    IN  ConstraintsOf(constraints, << "primary_key", "surrogate_key" >>, "PRIMARY KEY")
            \o ConstraintsOf(constraints, << "unique", "natural_key" >>, "UNIQUE")
            \o (IF Has(constraints, "foreign_key") /\ ~exclude_foreign_keys
                THEN << [constraint |-> "FOREIGN KEY",
                         columns |-> FormatColumnList(constraints.foreign_key.local_columns),
                         reference_table |-> constraints.foreign_key.reference,
                         reference_columns |->
                             FormatColumnList(constraints.foreign_key.reference_columns)] >>
                ELSE << >>)

Attribute(keyword, columns) == [attribute |-> keyword, columns |-> columns]

\* _build_attributes
BuildAttributes(table_design, exclude_distribution) ==
    LET attributes == table_design.attributes
    IN  (IF Has(attributes, "distribution") /\ ~exclude_distribution
         THEN IF Has(attributes.distribution, "list")
              THEN << Attribute("DISTSTYLE KEY", << >>),
                      Attribute("DISTKEY", FormatColumnList(attributes.distribution.list)) >>
              ELSE IF attributes.distribution.style \in {"all", "even"}
                   THEN << Attribute(IF attributes.distribution.style = "all"
                                     THEN "DISTSTYLE ALL" ELSE "DISTSTYLE EVEN", << >>) >>
                   ELSE << >>
         ELSE << >>)
        \o (IF Has(attributes, "compound_sort")
            THEN << Attribute("COMPOUND SORTKEY", FormatColumnList(attributes.compound_sort)) >>
            ELSE IF Has(attributes, "interleaved_sort")
                 THEN << Attribute("INTERLEAVED SORTKEY",
                                   FormatColumnList(attributes.interleaved_sort)) >>
                 ELSE << >>)

\* The column of the design after one pass of the loop of assemble_table_ddl:
\* column.update(...) when the column has references and the table is not
\* a temporary one
UpdatedColumn(column, is_temp) ==
    IF ~Get(column, "skipped", FALSE) /\ Has(column, "references") /\ ~is_temp
    THEN Update(column, [foreign_table |-> column.references.foreign_table,
                         foreign_column |->
                             FormatColumnList(column.references.foreign_columns)])
    ELSE column

\* f_column.format(**column) for a column that is not skipped
FormattedColumn(column, use_identity, is_temp) ==
    LET updated == UpdatedColumn(column, is_temp)
        referenced == Has(column, "references") /\ ~is_temp
    IN  [name |-> Quoted(updated.name),
         sql_type |-> updated.sql_type,
         options |-> (IF Get(column, "identity", FALSE) /\ use_identity
                      THEN << "IDENTITY(1, 1)" >> ELSE << >>)
                     \o (IF Has(column, "encoding")
                         THEN << "ENCODE", updated.encoding >> ELSE << >>)
                     \o (IF Get(column, "not_null", FALSE) THEN << "NOT NULL" >> ELSE << >>)
                     \o (IF referenced THEN << "REFERENCES", updated.foreign_table >>
                         ELSE << >>),
         foreign_column |-> IF referenced THEN updated.foreign_column ELSE << >>]

\* column["name"] for column in the columns that a builder keeps
ColumnNames(columns) == [k \in DOMAIN columns |-> columns[k].name]

NotSkipped(column) == ~Get(column, "skipped", FALSE)

NotIdentityOrSkipped(column) == ~(Get(column, "identity", FALSE) \/ Get(column, "skipped", FALSE))

AnyColumn(column) == TRUE

\* assemble_table_ddl: the text it returns
AssembleTableDdl(table_design, table_name, use_identity, is_temp) ==
    LET kept == SelectSeq(table_design.columns, NotSkipped)
    IN  [statement |-> IF is_temp THEN "CREATE TEMP TABLE IF NOT EXISTS"
                       ELSE "CREATE TABLE IF NOT EXISTS",
         name |-> table_name,
         s_columns |-> [k \in DOMAIN kept |-> FormattedColumn(kept[k], use_identity, is_temp)],
         column_list |-> << >>,
         s_constraints |-> BuildConstraints(table_design, is_temp),
         s_attributes |-> BuildAttributes(table_design, is_temp),
         values |-> << >>]

\* assemble_table_ddl: the design it leaves behind
DesignAfterTableDdl(table_design, is_temp) ==
    [table_design EXCEPT !.columns =
        [k \in DOMAIN table_design.columns |-> UpdatedColumn(table_design.columns[k], is_temp)]]

\* A statement that has a list of column names only
WithColumnList(statement, table_name, column_list, s_attributes, values) ==
    [statement |-> statement, name |-> table_name, s_columns |-> << >>,
     column_list |-> column_list, s_constraints |-> << >>, s_attributes |-> s_attributes,
     values |-> values]

\* create_view: ddl_stmt
ViewDdl(table_design, view_name) ==
    WithColumnList("CREATE OR REPLACE VIEW", view_name,
                   FormatColumnList(ColumnNames(SelectSeq(table_design.columns, AnyColumn))), << >>, << >>)

\* assemble_ctas_ddl
AssembleCtasDdl(table_design, temp_name) ==
    WithColumnList("CREATE TEMP TABLE AS", temp_name,
                   FormatColumnList(ColumnNames(SelectSeq(table_design.columns, NotIdentityOrSkipped))),
                   BuildAttributes(table_design, TRUE), << >>)

\* create_temp_table_as_and_copy: dml_temp_stmt
TempInsertDml(table_design, temp_name) ==
    WithColumnList("INSERT INTO", temp_name,
                   FormatColumnList(ColumnNames(SelectSeq(table_design.columns, NotIdentityOrSkipped))),
                   << >>, << >>)

TimestampTypes == {"timestamp", "timestamp without time zone"}

\* One value of na_values_row
NaValue(column) ==
    IF Get(column, "identity", FALSE) THEN [value |-> "0", cast |-> ""]
    ELSE IF ~Get(column, "not_null", FALSE) THEN [value |-> "NULL", cast |-> column.sql_type]
    ELSE IF column.sql_type \in TimestampTypes
         THEN [value |-> "'0000-01-01 00:00:00'", cast |-> ""]
    ELSE IF column.type = "string" THEN [value |-> "'N/A'", cast |-> ""]
    ELSE IF column.type = "boolean" THEN [value |-> "FALSE", cast |-> ""]
    ELSE [value |-> "0", cast |-> ""]

\* assemble_insert_into_dml
AssembleInsertIntoDml(table_design, table_name, add_row_for_key_0) ==
    LET kept == SelectSeq(table_design.columns, NotSkipped)
    IN  WithColumnList(IF add_row_for_key_0 THEN "INSERT INTO SELECT UNION ALL SELECT"
                       ELSE "INSERT INTO SELECT",
                       table_name,
                       FormatColumnList(ColumnNames(SelectSeq(table_design.columns, NotSkipped))), << >>,
                       IF add_row_for_key_0 THEN [k \in DOMAIN kept |-> NaValue(kept[k])]
                       ELSE << >>)

\* A design, as loaded from its file, is handed to the builders
InitAssemble ==
    /\ \E table_design \in TableDesigns :
         gen = [table_design |-> table_design, given |-> table_design, texts |-> << >>]
    /\ res = Run(Enter(0, << >>, << >>, << >>))
    /\ calls = 1
    /\ first = [order |-> << >>, result |-> << >>]
    /\ NoLoad
    /\ val = NoValidation

\* A builder has returned text
Built(call, text, table_design) ==
    /\ Len(gen.texts) < MaxTexts
    /\ gen' = [gen EXCEPT !.texts = Append(gen.texts, [call |-> call, text |-> text]),
                          !.table_design = table_design]
    /\ UNCHANGED rvars
    /\ UNCHANGED xvars
    /\ UNCHANGED vvars

BuildTableDdl ==
    \E use_identity, is_temp \in BOOLEAN :
        Built([builder |-> "assemble_table_ddl", use_identity |-> use_identity,
               is_temp |-> is_temp],
              AssembleTableDdl(gen.table_design, IF is_temp THEN "staging" ELSE "target",
                               use_identity, is_temp),
              DesignAfterTableDdl(gen.table_design, is_temp))

BuildViewDdl ==
    Built([builder |-> "create_view", use_identity |-> FALSE, is_temp |-> FALSE],
          ViewDdl(gen.table_design, "target"), gen.table_design)

BuildCtasDdl ==
    Built([builder |-> "assemble_ctas_ddl", use_identity |-> FALSE, is_temp |-> TRUE],
          AssembleCtasDdl(gen.table_design, "staging"), gen.table_design)

BuildTempInsertDml ==
    Built([builder |-> "create_temp_table_as_and_copy", use_identity |-> FALSE,
           is_temp |-> TRUE],
          TempInsertDml(gen.table_design, "staging"), gen.table_design)

BuildInsertIntoDml ==
    \E add_row_for_key_0 \in BOOLEAN :
        Built([builder |-> "assemble_insert_into_dml", use_identity |-> add_row_for_key_0,
               is_temp |-> FALSE],
              AssembleInsertIntoDml(gen.table_design, "target", add_row_for_key_0),
              gen.table_design)

NextAssemble ==
    \/ BuildTableDdl
    \/ BuildViewDdl
    \/ BuildCtasDdl
    \/ BuildTempInsertDml
    \/ BuildInsertIntoDml

SpecAssemble == InitAssemble /\ [][NextAssemble]_vars

\* ----------------------------------------------- properties of the executor
\* C8 (build order): the statements of the transactions are sent for the
\* relations in the order that order_by_dependencies gave them.
C8_BuildOrder ==
    \A p, q \in DOMAIN sent :
        (p < q /\ sent[p].on = "main" /\ sent[q].on = "main") =>
            res.order[sent[p].rel] <= res.order[sent[q].rel]

Kinds == {files[k].kind : k \in DOMAIN files}

ReportedSteps ==
    SelectSeq(skipped, LAMBDA m : m.step \in {"CREATE", "POPULATE", "GRANT"})

ThreeSteps(i) == Skipped(<< "CREATE", "POPULATE", "GRANT" >>, i)

RECURSIVE AllThreeSteps(_)
AllThreeSteps(n) == IF n = 0 THEN << >> ELSE AllThreeSteps(n - 1) \o ThreeSteps(n)

\* A view is created and granted; there is nothing to populate
PlannedSteps(i) ==
    IF files[i].kind = "VIEW" THEN Skipped(<< "CREATE", "GRANT" >>, i) ELSE ThreeSteps(i)

RECURSIVE AllPlannedSteps(_)
AllPlannedSteps(n) == IF n = 0 THEN << >> ELSE AllPlannedSteps(n - 1) \o PlannedSteps(n)

IsPrefix(a, b) == Len(a) <= Len(b) /\ a = SubSeq(b, 1, Len(a))

\* C10 as stated: a dry run reports CREATE, POPULATE, GRANT for every relation
C10_DryRunReportsThreeSteps ==
    (args.dry_run /\ pos.step = "returned") =>
        ReportedSteps = AllThreeSteps(Len(files))

\* C10 (amended): a dry run reports, in build order, CREATE, POPULATE, GRANT
\* for every UPSTREAM and CTAS relation and CREATE, GRANT for every VIEW;
\* a run that an error cut short has reported a prefix of that.
C10_DryRunReportsPlannedSteps ==
    args.dry_run =>
        /\ IsPrefix(ReportedSteps, AllPlannedSteps(Len(files)))
        /\ pos.step = "returned" => ReportedSteps = AllPlannedSteps(Len(files))

\* A dry run over a table, a view and a CTAS has returned
C10_Witness ==
    /\ args.dry_run
    /\ pos.step = "returned"
    /\ Len(files) = 3
    /\ files[1].kind = "UPSTREAM"
    /\ files[2].kind = "VIEW"
    /\ files[3].kind = "CTAS"
    /\ Len(ReportedSteps) = 8

\* The DROP ... IF EXISTS ... CASCADE that belongs to a CREATE statement
DropOf(stmt) == IF stmt = "CREATE VIEW" THEN "DROP VIEW" ELSE "DROP TABLE"

\* C11 (forced rebuild): with drop set and dry_run not set, every CREATE TABLE
\* and CREATE OR REPLACE VIEW is sent right after the successful DROP of the
\* same relation, and the first statement sent for a relation is its DROP.
C11_ForcedRebuild ==
    (args.drop /\ ~args.dry_run) =>
        /\ \A k \in DOMAIN sent :
              sent[k].stmt \in {"CREATE TABLE", "CREATE VIEW"} =>
                  /\ k > 1
                  /\ sent[k - 1].stmt = DropOf(sent[k].stmt)
                  /\ sent[k - 1].rel = sent[k].rel
                  /\ sent[k - 1].ok
        /\ \A k \in DOMAIN sent :
              (\A j \in 1..(k - 1) : sent[j].rel # sent[k].rel) =>
                  sent[k].stmt = DropOf(IF files[sent[k].rel].kind = "VIEW"
                                        THEN "CREATE VIEW" ELSE "CREATE TABLE")

\* A forced rebuild of a table, a view and a CTAS has returned
C11_Witness ==
    /\ args.drop
    /\ ~args.dry_run
    /\ pos.step = "returned"
    /\ Kinds = {"UPSTREAM", "CTAS", "VIEW"}
    /\ \E k \in DOMAIN sent : sent[k].stmt = "CREATE VIEW" /\ sent[k].ok
    /\ \E k \in DOMAIN sent : sent[k].stmt = "CREATE TABLE" /\ sent[k].ok

\* The statements sent so far for the relation at position i of the listing
StatementsOf(i) == {sent[k].stmt : k \in {j \in DOMAIN sent : sent[j].rel = i}}

Views == {i \in DOMAIN files : files[i].kind = "VIEW"}

\* C12 as stated: for a VIEW only DROP VIEW and CREATE OR REPLACE VIEW are sent
C12_ViewOnlyCreated ==
    \A i \in Views : StatementsOf(i) \subseteq {"DROP VIEW", "CREATE VIEW"}

\* C12 (amended): for a VIEW only DROP VIEW, CREATE OR REPLACE VIEW and the
\* two GRANT statements are sent, the grants after the CREATE; a VIEW is
\* never analyzed, never vacuumed and never entered in vacuumable.
C12_ViewCreatedAndGranted ==
    /\ \A i \in Views :
          StatementsOf(i) \subseteq {"DROP VIEW", "CREATE VIEW", "GRANT ALL", "GRANT SELECT"}
    /\ \A k \in DOMAIN sent :
          (sent[k].rel \in Views /\ sent[k].stmt = "GRANT ALL") =>
              /\ k > 1
              /\ sent[k - 1] = [stmt |-> "CREATE VIEW", rel |-> sent[k].rel,
                                ok |-> TRUE, on |-> "main"]
    /\ \A k \in DOMAIN vacuumable : vacuumable[k] \notin Views
    /\ \A i \in Views :
          (~args.dry_run /\ (pos.i > i \/ pos.step \in {"close", "reconnect", "vacuum",
                                                       "vacuumed", "returned"})) =>
              {"CREATE VIEW", "GRANT ALL", "GRANT SELECT"} \subseteq StatementsOf(i)

\* A view and a CTAS were built, the CTAS was vacuumed and the run returned
C12_Witness ==
    /\ ~args.dry_run
    /\ ~args.drop
    /\ pos.step = "returned"
    /\ Kinds = {"VIEW", "CTAS"}
    /\ \E k \in DOMAIN sent : sent[k].stmt = "VACUUM" /\ sent[k].ok
    /\ \E k \in DOMAIN sent :
          sent[k].stmt = "GRANT SELECT" /\ sent[k].ok /\ sent[k].rel \in Views

\* The step of a relation's build that a statement belongs to
StepOf(stmt) ==
    CASE stmt \in {"DROP TABLE", "CREATE TABLE", "ALTER TABLE OWNER",
                   "DROP VIEW", "CREATE VIEW"} -> "create"
      [] stmt \in {"EXPLAIN", "CREATE TEMP TABLE", "INSERT INTO TEMP", "DELETE", "INSERT",
                   "DROP TEMP TABLE", "COPY", "SELECT stl_load_errors"} -> "populate"
      [] stmt = "ANALYZE" -> "analyze"
      [] stmt \in {"GRANT ALL", "GRANT SELECT"} -> "grant"
      [] stmt = "VACUUM" -> "vacuum"

StepsOf(i) == {StepOf(stmt) : stmt \in StatementsOf(i)}

\* The place of a step in the sequence steps
Rank(steps) == [step \in {steps[k] : k \in DOMAIN steps} |->
                   CHOOSE k \in DOMAIN steps : steps[k] = step]

\* The steps run one after the other in the order of the sequence steps:
\* a statement of a later step is sent only after all statements of the
\* earlier steps were sent and succeeded, and never before one of them
InOrder(steps) ==
    LET rank == Rank(steps)
        tables == {k \in DOMAIN sent : files[sent[k].rel].kind # "VIEW"}
        place == [k \in tables |-> rank[StepOf(sent[k].stmt)]]
    IN  \A p \in tables : \A q \in tables :
            (sent[p].rel = sent[q].rel /\ place[p] < place[q]) => (p < q /\ sent[p].ok)

OpenOf(i) == {txn[k].stmt : k \in {j \in DOMAIN txn : txn[j].rel = i}}

CommittedOf(i) == {committed[k].stmt : k \in {j \in DOMAIN committed : committed[j].rel = i}}

C15_AtomicPerRelation ==
    \A k \in DOMAIN sent :
        (~sent[k].ok /\ sent[k].on = "main") =>
            CommittedOf(sent[k].rel) \cap StateChanging = {}

\* The statements that a step has just sent
JustSent == {sent'[k] : k \in DOMAIN sent' \ DOMAIN sent}

\* C16 (vacuum outside transactions): the autocommit connection is opened
\* only when the main connection is closed, no transaction is open and
\* every relation's transaction has committed; VACUUM is sent on that
\* connection only, and nothing but VACUUM is sent on it.
C16_VacuumOutsideTransaction ==
    [][/\ (conn' = "autocommit" /\ conn # "autocommit") =>
             /\ conn = "closed"
             /\ txn = << >>
             /\ ~args.dry_run =>
                   \A i \in DOMAIN files : "GRANT SELECT" \in CommittedOf(i)
       /\ \A m \in JustSent :
             (m.stmt = "VACUUM" \/ m.on = "autocommit" \/ conn = "autocommit") =>
                 /\ m.stmt = "VACUUM"
                 /\ m.on = "autocommit"
                 /\ conn = "autocommit"
                 /\ txn = << >> /\ txn' = << >>
       /\ (conn = "autocommit") => (conn' \in {"autocommit", "closed"})
      ]_vars

\* Two tables were vacuumed on the autocommit connection
C16_Witness ==
    /\ conn = "autocommit"
    /\ Len(vacuumable) = 2
    /\ pos.step = "vacuumed"
    /\ \A i \in DOMAIN files :
          files[i].kind # "VIEW" =>
              \E k \in DOMAIN sent :
                  sent[k] = [stmt |-> "VACUUM", rel |-> i, ok |-> TRUE, on |-> "autocommit"]

\* The relations for which VACUUM was sent and succeeded, in the order sent
Vacuumed ==
    LET done == SelectSeq(sent, LAMBDA m : m.stmt = "VACUUM" /\ m.ok)
    IN  [k \in DOMAIN done |-> done[k].rel]

\* The UPSTREAM and CTAS relations in the order they are built
Tables == SelectSeq([i \in DOMAIN files |-> i], LAMBDA i : files[i].kind # "VIEW")

\* C17 as stated: a run without dry_run that returns has vacuumed every
\* table once, in build order, whatever drop is
C17_VacuumCoverage ==
    (~args.dry_run /\ pos.step = "returned") => Vacuumed = Tables

\* C17 (amended): with drop not set such a run has vacuumed every table
\* once, in build order; with drop set no VACUUM is ever sent; the tables
\* vacuumed so far are always the first of the tables analyzed.
C17_VacuumCoverageUnlessDrop ==
    /\ (~args.dry_run /\ ~args.drop /\ pos.step = "returned") =>
          (Vacuumed = Tables /\ vacuumable = Tables)
    /\ args.drop => "VACUUM" \notin {sent[k].stmt : k \in DOMAIN sent}
    /\ IsPrefix(Vacuumed, vacuumable)
    /\ IsPrefix(vacuumable, Tables)

\* A table, a view and a CTAS were built and the two tables vacuumed
C17_Witness ==
    /\ ~args.dry_run
    /\ ~args.drop
    /\ pos.step = "returned"
    /\ Len(files) = 3
    /\ files[2].kind = "VIEW"
    /\ Vacuumed = << 1, 3 >>

\* C18 (failure isolation): when a statement of a relation failed and the
\* run has ended, every later relation of the listing was still built.
C18_LaterRelationsBuilt ==
    \A k \in DOMAIN sent :
        (~args.dry_run /\ pos.step = "raised" /\ ~sent[k].ok /\ sent[k].on = "main") =>
            \A i \in DOMAIN files : i > sent[k].rel => "GRANT SELECT" \in StatementsOf(i)

\* ---------------------------------------------- properties of the validator
\* C19 (no temporary view is left): a temporary view exists only while
\* validate_table_as_view is at work on its relation.
C19_TempViewDropped ==
    /\ \A i \in val.views : i = val.i
    /\ val.step \in {"returned", "raised"} => val.views = {}

\* The result of the two checks for the relation that is being validated
DependencyMismatch ==
    CheckDependencies(val.dependencies, val.descriptions[val.i]) # NoMessage

ColumnMismatch ==
    CheckColumns(val.actual_columns, val.descriptions[val.i]) # NoMessage

LastLogged == val.log[Len(val.log)]

\* C20 (validator strictness): without keep_going a mismatch raises
\* TableDesignError and nothing more is validated, so that every relation
\* before it matched; with keep_going a mismatch is logged as a warning, the
\* dependency check of a relation is followed by its column query, and a
\* call that returns has validated every relation of the batch.
C20_ValidatorStrictness ==
    /\ ~val.keep_going =>
          /\ \A k \in DOMAIN val.log : val.log[k].level = "info"
          /\ val.step = "columns" => ~DependencyMismatch
          /\ val.step = "drop" => (~DependencyMismatch /\ ~ColumnMismatch)
          /\ val.exc = "TableDesignError" =>
                /\ val.step \in {"except", "raised"}
                /\ DependencyMismatch \/ ColumnMismatch
          /\ val.step = "returned" => Len(val.log) = 2 * Len(val.descriptions)
    /\ val.keep_going =>
          /\ val.exc # "TableDesignError"
          /\ val.step = "columns" =>
                LastLogged = [rel |-> val.i, about |-> "dependencies",
                              level |-> IF DependencyMismatch THEN "warning" ELSE "info"]
          /\ val.step = "drop" =>
                LastLogged = [rel |-> val.i, about |-> "columns",
                              level |-> IF ColumnMismatch THEN "warning" ELSE "info"]
          /\ \A k \in DOMAIN val.log :
                val.log[k].about = "dependencies" =>
                    IF k < Len(val.log)
                    THEN /\ val.log[k + 1].rel = val.log[k].rel
                         /\ val.log[k + 1].about \in {"columns", "psycopg2.Error"}
                    ELSE /\ val.i = val.log[k].rel
                         /\ val.step \in {"columns", "except"}
          /\ val.step = "returned" =>
                \A i \in DOMAIN val.descriptions :
                    \E k \in DOMAIN val.log : val.log[k].rel = i
          /\ val.step = "raised" => (val.i = 0 \/ val.exc = "MissingQueryError")

\* With keep_going both checks of the first relation gave a warning and the
\* second relation was validated after it
C20_Witness ==
    /\ val.keep_going
    /\ val.step = "returned"
    /\ Len(val.descriptions) = 2
    /\ Len(val.log) = 4
    /\ val.log[1] = [rel |-> 1, about |-> "dependencies", level |-> "warning"]
    /\ val.log[2] = [rel |-> 1, about |-> "columns", level |-> "warning"]
    /\ val.log[3].rel = 2
    /\ val.log[4] = [rel |-> 2, about |-> "columns", level |-> "info"]

\* The columns that the query of a relation has to return: those of the
\* design that are neither skipped nor identity, in declared order
QueryColumnsOf(table_design) ==
    LET kept == SelectSeq(table_design.columns,
                          LAMBDA column : ~column.skipped /\ ~column.identity)
    IN  [k \in DOMAIN kept |-> kept[k].name]

\* C21 (column reinsertion): once the columns of the temporary view were
\* compared, _check_columns has reported a mismatch exactly when the observed
\* list differs from the declared non-skipped, non-identity columns.
C21_ColumnReinsertion ==
    val.actual_columns # << >> =>
        (ColumnMismatch <=> val.actual_columns # QueryColumnsOf(val.descriptions[val.i]))

\* ------------------------------------- properties of the statement builders
\* The column names in the column list of a statement
NamesIn(text) ==
    {text.s_columns[k].name[2] : k \in DOMAIN text.s_columns}
        \cup {text.column_list[k][2] : k \in DOMAIN text.column_list}

SkippedNames(table_design) ==
    {table_design.columns[k].name :
        k \in {j \in DOMAIN table_design.columns : Get(table_design.columns[j], "skipped", FALSE)}}

\* C22 (skipped columns): no statement built from a design names a column
\* that the design marks as skipped in its column list.
C22_SkippedNeverNamed ==
    \A k \in DOMAIN gen.texts :
        NamesIn(gen.texts[k].text) \cap SkippedNames(gen.given) = {}

\* C23 (missing query): MissingQueryError is raised before any DDL statement
\* has been sent to the warehouse in the run, it ends the run, and it is
\* never only logged, with keep_going either.  (val.ddl holds the relations
\* whose CREATE OR REPLACE VIEW was sent.)
C23_MissingQueryFatal ==
    /\ val.exc = "MissingQueryError" =>
          /\ val.ddl = {}
          /\ val.step \in {"except", "raised"}
    /\ \A k \in DOMAIN val.log : val.log[k].about # "MissingQueryError"

\* ------------------------------------------- properties of validate_designs
\* C24 (resolution errors): validate_designs orders the relations before any
\* validation against the database, so that when order_by_dependencies
\* raises CyclicDependencyError no connection was opened and no statement
\* was sent for any relation, with keep_going too.
C24_ResolutionBeforeWarehouse ==
    /\ val.step # "idle" => res.pc = "done"
    /\ res.pc = "raised" =>
          /\ val.step = "idle"
          /\ val.conn = "none"
          /\ val.ddl = {}
          /\ val.views = {}
          /\ val.log = << >>

\* The batch of two relations that depend on each other was refused in
\* keep-going mode
C24_Witness ==
    /\ res.pc = "raised"
    /\ res.nr_tables = 2
    /\ res.depends_on[1] = {2}
    /\ res.depends_on[2] = {1}
    /\ val.keep_going

\* The validation against the database does happen after a successful
\* ordering: a connection is open and a temporary view exists
C24_Connected ==
    /\ res.pc = "done"
    /\ val.conn = "autocommit"
    /\ val.views # {}

\* ------------------------------------------------- properties of copy_data
\* A DELETE or COPY of copy_data that failed (CTAS relations run a DELETE of
\* their own in create_temp_table_as_and_copy)
FailedLoads ==
    {k \in DOMAIN sent : /\ Creates(files[sent[k].rel]) = "None"
                         /\ sent[k].stmt \in {"DELETE", "COPY"}
                         /\ ~sent[k].ok}

\* C25 (COPY failure handling): when DELETE or COPY fails for an upstream
\* relation the transaction is rolled back, nothing but the query of
\* stl_load_errors follows, and the error of the statement that failed is
\* the one raised to the caller; DELETE and COPY are committed only when
\* both succeeded.
C25_CopyFailureHandling ==
    /\ \A k \in FailedLoads :
          /\ txn = << >>
          /\ \A j \in DOMAIN committed : committed[j].rel # sent[k].rel
          /\ k < Len(sent) =>
                (Len(sent) = k + 1 /\ sent[k + 1].stmt = "SELECT stl_load_errors")
          /\ pos.step = "raised"
          /\ pos.error = "psycopg2.Error of " \o sent[k].stmt
    /\ \A j \in DOMAIN committed :
          (Creates(files[committed[j].rel]) = "None" /\ committed[j].stmt \in {"DELETE", "COPY"}) =>
              \A stmt \in {"DELETE", "COPY"} :
                  \E k \in DOMAIN sent :
                      sent[k] = [stmt |-> stmt, rel |-> committed[j].rel, ok |-> TRUE, on |-> "main"]

\* ------------------------------------------------- properties of the swap
\* The statements that build a CTAS relation, in the order of the claim
SwapSequence(has_any_identity) ==
    << "CREATE TABLE", "CREATE TEMP TABLE" >>
        \o (IF has_any_identity THEN << "INSERT INTO TEMP" >> ELSE << >>)
        \o << "DELETE", "INSERT", "DROP TEMP TABLE" >>

SwapStatements == {SwapSequence(TRUE)[k] : k \in DOMAIN SwapSequence(TRUE)}

\* The statements of the swap among log (sent, txn or committed) for relation i
SwapOf(log, i) ==
    LET kept == SelectSeq(log, LAMBDA s : s.rel = i /\ s.stmt \in SwapStatements)
    IN  [k \in DOMAIN kept |-> kept[k].stmt]

Ctas == {i \in DOMAIN files : files[i].kind = "CTAS"}

\* C26 (CTAS swap): the statements of a CTAS relation are sent in the order
\* CREATE TABLE, CREATE TEMP TABLE, (INSERT INTO the staging table when a
\* column has identity set,) DELETE, INSERT, DROP of the staging table, each
\* after the one before it succeeded and all in one transaction: they are in
\* the open transaction together and are committed together, the drop of the
\* staging table included, and when one of them fails nothing of the
\* relation is committed and the transaction is rolled back.
C26_CtasSwap ==
    \A i \in Ctas :
        LET swap == SwapSequence(files[i].identity)
        IN  /\ IsPrefix(SwapOf(sent, i), swap)
            /\ \A k \in DOMAIN sent :
                  (sent[k].rel = i /\ sent[k].stmt \in SwapStatements /\ ~sent[k].ok) =>
                      /\ k = Len(sent)
                      /\ CommittedOf(i) = {}
                      /\ txn = << >>
                      /\ pos.step = "raised"
            /\ IsPrefix(SwapOf(txn, i), swap)
            /\ SwapOf(committed, i) \in {<< >>, swap}
            /\ SwapOf(committed, i) = swap => SwapOf(txn, i) = << >>

\* A CTAS relation with an identity column was built and committed, and the
\* build of the CTAS relation after it failed at its INSERT
C26_Witness ==
    /\ Len(files) = 2
    /\ files[1] = [kind |-> "CTAS", identity |-> TRUE, manifest |-> FALSE]
    /\ files[2].kind = "CTAS"
    /\ SwapOf(committed, 1) = SwapSequence(TRUE)
    /\ pos.step = "raised"
    /\ sent[Len(sent)] = [stmt |-> "INSERT", rel |-> 2, ok |-> FALSE, on |-> "main"]
    /\ CommittedOf(2) = {}

\* ------------------------------------------ termination of the resolver
\* The largest priority that an entry of the queue can have: an entry is
\* requeued only when the popped priority is at most 2 * nr_tables
TopPriority(r) == 2 * r.nr_tables + 1

RECURSIVE Slack(_, _)
Slack(queue, top) ==
    IF queue = {} THEN 0
    ELSE LET e == CHOOSE x \in queue : TRUE
         IN  (top + 1 - e[1]) + Slack(queue \ {e}, top)

\* What is left to do at most: the iterations of the for loop that are to
\* come, and for every entry of the queue the pops that it can still see
Variant(r) ==
    IF r.pc \in {"done", "raised"} THEN 0
    ELSE 1 + (r.nr_tables - r.initial_order) * (TopPriority(r) + 1)
           + Slack(r.queue, TopPriority(r))

Running == res.pc \in {"seed", "loop"}

\* C27 (termination): the loop of order_by_dependencies ends after finitely
\* many pops.  While the call runs it can take a step, every step brings
\* the natural number Variant down, every requeue puts the popped relation
\* back with a priority above the one it was popped with, the popped
\* priorities never decrease, and the call ends with every relation ordered
\* or with CyclicDependencyError.
C27_ResolverTerminates ==
    /\ [](Running => ENABLED Next)
    /\ [](Variant(res) >= 0)
    /\ [](\A e \in res.queue : e[1] <= TopPriority(res))
    /\ [](res.pc = "done" => \A d \in Identifiers(res.nr_tables) : res.order[d] # None)
    /\ [][/\ Variant(res') < Variant(res)
          /\ (res.pc = "loop" /\ res.queue # {}) =>
                LET e == QueueGet(res.queue)
                IN  /\ res'.minimum = e[1]
                    /\ res'.minimum >= res.minimum
                    /\ Branch(res) \in {"some", "none"} =>
                          \E again \in res'.queue :
                              /\ again[3] = e[3]
                              /\ again[2] = e[2]
                              /\ again[1] > e[1]
                              /\ res'.queue = (res.queue \ {e}) \cup {again}
                    /\ Branch(res) \in {"no_dependencies", "all"} =>
                          res'.queue = res.queue \ {e}
         ]_vars

\* A call that requeued relations came to its end: a batch with a relation
\* that names an unknown relation and itself was refused, after pops with
\* growing priorities
C27_Witness ==
    /\ res.pc = "raised"
    /\ res.nr_tables >= 2
    /\ res.known_unknowns # {}
    /\ \E d \in Identifiers(res.nr_tables) : d \in res.depends_on[d]
    /\ res.minimum = TopPriority(res)

\* ... and an acyclic batch was ordered after a requeue
C27_Ordered ==
    /\ res.pc = "done"
    /\ res.nr_tables >= 3
    /\ res.minimum >= 3

\* ------------------------------------------------ purity of the builders
\* Building twice, with the same arguments, gives the same text
SameCallSameText ==
    \A j, k \in DOMAIN gen.texts :
        gen.texts[j].call = gen.texts[k].call => gen.texts[j].text = gen.texts[k].text

\* C28 (pure DDL builder): assemble_table_ddl, with every combination of
\* use_identity and is_temp, leaves the design that it is given as it was,
\* and building twice from the same design gives identical text.
C28_BuilderPure ==
    /\ gen.table_design = gen.given
    /\ SameCallSameText

\* --------------------------------------------- numbering and permutation
\* The relations that have their order
Assigned(r) == {d \in Identifiers(r.nr_tables) : r.order[d] # None}

\* C29 (dense numbering): at every point of a call on fresh relations the
\* orders handed out are the integers 1..latest, each to one relation, so
\* that latest is the number of relations that have their order; when the
\* call returns the orders are exactly 1..nr_tables.
C29_DenseNumbering ==
    /\ res.latest = Cardinality(Assigned(res))
    /\ {res.order[d] : d \in Assigned(res)} = 1..res.latest
    /\ res.pc = "done" =>
          /\ Assigned(res) = Identifiers(res.nr_tables)
          /\ {res.order[d] : d \in Identifiers(res.nr_tables)} = 1..res.nr_tables
          /\ \A a, b \in Identifiers(res.nr_tables) : res.order[a] = res.order[b] => a = b

\* Four relations were numbered 1..4 although one of them was requeued
C29_Witness ==
    /\ res.pc = "done"
    /\ res.nr_tables = 4
    /\ res.latest = 4
    /\ res.minimum > 1

\* In the input every relation comes after all of its known dependencies
AlreadyValid(r) ==
    \A a \in Identifiers(r.nr_tables) : \A b \in KnownDependencies(r)[a] : b < a

\* C30 (permutation, valid order kept): the list that is returned holds
\* every relation of the input once, and when the input was in a valid
\* order already the call returns and the list is the input list.
C30_KeepsValidOrder ==
    /\ res.pc = "done" =>
          /\ Len(res.result) = res.nr_tables
          /\ {res.result[k] : k \in DOMAIN res.result} = Identifiers(res.nr_tables)
          /\ AlreadyValid(res) => res.result = [k \in 1..res.nr_tables |-> k]
    /\ AlreadyValid(res) => res.pc # "raised"

\* The diamond in a valid input order, with a dependency on an unknown
\* relation or without, was returned
C30_Witness ==
    /\ res.pc = "done"
    /\ res.nr_tables = 4
    /\ AlreadyValid(res)
    /\ KnownDependencies(res) = (1 :> {} @@ 2 :> {1} @@ 3 :> {1} @@ 4 :> {2, 3})
====
